---------------------------- MODULE Spec2Model ----------------------------
(***************************************************************************)
(* A model of the n8n client scripts: the webhook trigger, the execution   *)
(* locator, the poll loop, the run-data extractor and the JSON helper.     *)
(*                                                                         *)
(* Python values are records [ty, v]; an exception raised by a step is an  *)
(* outcome of that step (a result whose st is "raise"), caught or not by   *)
(* the except clause of the code around it.                                *)
(***************************************************************************)
EXTENDS Integers, Sequences, FiniteSets, TLC

\* ------------------------------------------------------------------ bounds

\* Outputs the remote engine appends to a run's result tree.
MaxSteps == 4

\* ------------------------------------------------------------ python values

\* Python's None.
None == [ty |-> "none", v |-> ""]

\* A key that a mapping does not hold.
Absent == [ty |-> "absent", v |-> ""]

PyStr(s) == [ty |-> "str", v |-> s]

PyInt(s) == [ty |-> "int", v |-> s]

\* str(x): a str is itself, an int its digits, None the word "None".
Str(x) ==
    CASE x.ty = "str" -> x
      [] x.ty = "int" -> PyStr(x.v)
      [] x.ty = "none" -> PyStr("None")
      [] OTHER -> PyStr("?")

\* The five recognized field names of the data model, in priority order.
RecognizedFields == <<"output", "text", "message", "response", "content">>

FieldNames == {RecognizedFields[i] : i \in 1..Len(RecognizedFields)}

\* ------------------------------------------------------- the result tree
\* runData: the stages in mapping (insertion) order. A stage's runs are None
\* or a list of stage-runs; a stage-run has no "data", "data": null, or a
\* "main" list of output groups; a group is None or a list of items; an item
\* is a str, None, a mapping without "json", a mapping with "json": null, or
\* a mapping whose "json" maps field names to values.

Stage(kind, els) == [kind |-> kind, els |-> els]

StageRun(kind, main) == [kind |-> kind, main |-> main]

Group(kind, items) == [kind |-> kind, items |-> items]

NoFields == [k \in FieldNames |-> Absent]

Item(kind, json) == [kind |-> kind, json |-> json]

\* The value field k of the n-th item carries.
FieldValue(k, n, ty) ==
    CASE ty = "int" -> PyInt(ToString(n))
      [] ty = "none" -> None
      [] OTHER -> PyStr(k \o ToString(n))

\* A mapping item holding exactly the fields fs.
MapItem(fs, n, ty) ==
    Item("map", [k \in FieldNames |-> IF k \in fs THEN FieldValue(k, n, ty) ELSE Absent])

\* Results of a scan: nothing found, a value found, or an exception raised.
NotFound == [st |-> "none", val |-> None]

Found(x) == [st |-> "found", val |-> x]

Raise(e) == [st |-> "raise", val |-> PyStr(e)]

\* How a call ends: it returns a value, or an exception leaves it.
Return(x) == [st |-> "return", val |-> x]

\* ---------------------------------------- N8nWorkflowGenerator._extract_text

\* for key in ("output", "text", "message", "response")
ExtractKeys == <<"output", "text", "message", "response">>

\* The first key of keys (from index i) that j holds, as return str(j[key]).
RECURSIVE FirstKey(_, _, _)
FirstKey(j, keys, i) ==
    IF i > Len(keys) THEN NotFound
    ELSE IF j[keys[i]] # Absent THEN Found(Str(j[keys[i]]))
    ELSE FirstKey(j, keys, i + 1)

\* j = item.get("json", {}), then the key loop.
TextOfItem(item) ==
    CASE item.kind \in {"str", "null"} -> Raise("AttributeError")
      [] item.kind = "nojson" -> NotFound
      [] item.kind = "jsonnull" -> Raise("TypeError")
      [] OTHER -> FirstKey(item.json, ExtractKeys, 1)

\* for item in main or []
RECURSIVE TextOfItems(_, _)
TextOfItems(items, i) ==
    IF i > Len(items) THEN NotFound
    ELSE LET r == TextOfItem(items[i])
         IN IF r.st # "none" THEN r ELSE TextOfItems(items, i + 1)

TextOfGroup(g) == IF g.kind = "null" THEN NotFound ELSE TextOfItems(g.items, 1)

\* for main in run.get("data", {}).get("main", [])
RECURSIVE TextOfGroups(_, _)
TextOfGroups(main, i) ==
    IF i > Len(main) THEN NotFound
    ELSE LET r == TextOfGroup(main[i])
         IN IF r.st # "none" THEN r ELSE TextOfGroups(main, i + 1)

TextOfRun(run) ==
    CASE run.kind = "nodata" -> NotFound
      [] run.kind = "datanull" -> Raise("AttributeError")
      [] OTHER -> TextOfGroups(run.main, 1)

\* for run in runs or []
RECURSIVE TextOfRuns(_, _)
TextOfRuns(runs, i) ==
    IF i > Len(runs) THEN NotFound
    ELSE LET r == TextOfRun(runs[i])
         IN IF r.st # "none" THEN r ELSE TextOfRuns(runs, i + 1)

TextOfStage(s) == IF s.kind = "null" THEN NotFound ELSE TextOfRuns(s.els, 1)

\* for _node, runs in run_data.items()
RECURSIVE TextOfStages(_, _)
TextOfStages(rd, i) ==
    IF i > Len(rd) THEN NotFound
    ELSE LET r == TextOfStage(rd[i])
         IN IF r.st # "none" THEN r ELSE TextOfStages(rd, i + 1)

\* The body of the try block.
ExtractTextBody(rd) == TextOfStages(rd, 1)

\* try: ... except Exception: print(...); return None
_extract_text(rd) ==
    LET r == ExtractTextBody(rd)
    IN IF r.st = "found" THEN Return(r.val) ELSE Return(None)

\* -------------------------------------------- N8nPrompt.extract_response

\* if 'json' in item: 'output' then 'text' of item['json'], returned as is.
ResponseOfItem(item) ==
    CASE item.kind = "str" -> NotFound
      [] item.kind = "null" -> Raise("TypeError")
      [] item.kind = "nojson" -> NotFound
      [] item.kind = "jsonnull" -> Raise("TypeError")
      [] item.json["output"] # Absent -> Found(item.json["output"])
      [] item.json["text"] # Absent -> Found(item.json["text"])
      [] OTHER -> NotFound

RECURSIVE ResponseOfItems(_, _)
ResponseOfItems(items, i) ==
    IF i > Len(items) THEN NotFound
    ELSE LET r == ResponseOfItem(items[i])
         IN IF r.st # "none" THEN r ELSE ResponseOfItems(items, i + 1)

\* if main: for item in main
ResponseOfGroup(g) == IF g.kind = "null" THEN NotFound ELSE ResponseOfItems(g.items, 1)

RECURSIVE ResponseOfGroups(_, _)
ResponseOfGroups(main, i) ==
    IF i > Len(main) THEN NotFound
    ELSE LET r == ResponseOfGroup(main[i])
         IN IF r.st # "none" THEN r ELSE ResponseOfGroups(main, i + 1)

\* main_data = run.get('data', {}).get('main', [])
ResponseOfRun(run) ==
    CASE run.kind = "nodata" -> NotFound
      [] run.kind = "datanull" -> Raise("AttributeError")
      [] OTHER -> ResponseOfGroups(run.main, 1)

RECURSIVE ResponseOfRuns(_, _)
ResponseOfRuns(runs, i) ==
    IF i > Len(runs) THEN NotFound
    ELSE LET r == ResponseOfRun(runs[i])
         IN IF r.st # "none" THEN r ELSE ResponseOfRuns(runs, i + 1)

\* if node_runs and len(node_runs) > 0
ResponseOfStage(s) == IF s.kind = "null" THEN NotFound ELSE ResponseOfRuns(s.els, 1)

RECURSIVE ResponseOfStages(_, _)
ResponseOfStages(rd, i) ==
    IF i > Len(rd) THEN NotFound
    ELSE LET r == ResponseOfStage(rd[i])
         IN IF r.st # "none" THEN r ELSE ResponseOfStages(rd, i + 1)

\* try: ... return None; except Exception: print(...); return None
extract_response(rd) ==
    LET r == ResponseOfStages(rd, 1)
    IN IF r.st = "found" THEN Return(r.val) ELSE Return(None)

\* ------------------------------------------------ the webhook call's outcome
\* A parsed JSON body: a dict of fields (no field: the empty dict), a list, or a
\* scalar (str, int, null).

JDict(f) == [ty |-> "dict", v |-> "", fields |-> f, els |-> <<>>]

JList(els) == [ty |-> "list", v |-> "", fields |-> NoFields, els |-> els]

JScalar(x) == [ty |-> x.ty, v |-> x.v, fields |-> NoFields, els |-> <<>>]

\* json.dumps of a scalar.
DumpsScalar(x) ==
    CASE x.ty = "str" -> "\"" \o x.v \o "\""
      [] x.ty = "int" -> x.v
      [] OTHER -> "null"

\* json.dumps of a dict's members from the i-th field name on.
RECURSIVE DumpsFields(_, _, _)
DumpsFields(f, i, sep) ==
    IF i > Len(RecognizedFields) THEN ""
    ELSE LET k == RecognizedFields[i]
         IN IF f[k] = Absent THEN DumpsFields(f, i + 1, sep)
            ELSE sep \o "\"" \o k \o "\": " \o DumpsScalar(f[k])
                     \o DumpsFields(f, i + 1, ", ")

\* json.dumps(body)
RECURSIVE Dumps(_)
Dumps(b) ==
    CASE b.ty = "dict" -> "{" \o DumpsFields(b.fields, 1, "") \o "}"
      [] b.ty = "list" ->
            "[" \o (IF b.els = <<>> THEN ""
                    ELSE Dumps(b.els[1])
                         \o (IF Len(b.els) > 1 THEN ", " \o Dumps(b.els[2]) ELSE ""))
                \o "]"
      [] OTHER -> DumpsScalar(b)

\* The dict bodies: any set of the recognized fields with str values, or one
\* field with an int or a null value.
DictBodies ==
    {JDict(MapItem(fs, 1, "str").json) : fs \in SUBSET FieldNames}
        \cup {JDict(MapItem({k}, 1, ty).json) : k \in FieldNames, ty \in {"int", "none"}}

\* The bodies that parse as JSON.
JsonBodies ==
    DictBodies
        \cup {JList(<<>>), JList(<<JList(<<>>)>>), JList(<<JScalar(PyStr("hi"))>>)}
        \cup {JList(<<d>>) : d \in DictBodies}
        \cup {JScalar(PyStr("hi")), JScalar(PyInt("7")), JScalar(None)}

\* The texts that do not.
PlainTexts == {"", "plain text"}

Response(status, parses, json, text) ==
    [kind |-> "response", status |-> status, parses |-> parses, json |-> json, text |-> text]

\* The classes of the final response's status code.
StatusClasses == {"2xx", "3xx", "4xx", "5xx"}

\* What one requests.post / requests.get may end in: an exception for a
\* connection error or a timeout, or a response of some status, whose body
\* parses as JSON or does not.
HttpOutcomes ==
    {[Response("none", FALSE, JScalar(None), "") EXCEPT !.kind = k] :
        k \in {"ConnectionError", "Timeout"}}
        \cup {Response(st, TRUE, b, Dumps(b)) : st \in StatusClasses, b \in JsonBodies}
        \cup {Response(st, FALSE, JScalar(None), t) : st \in StatusClasses, t \in PlainTexts}

\* A status check that raises for server errors alone.
RaisesFor5xxOnly(status) == status = "5xx"

\* resp.raise_for_status() raises HTTPError for 400..599.
raise_for_status(status) == status \in {"4xx", "5xx"}

\* for key in ("output", "text", "message", "response") in trigger
TriggerKeys == <<"output", "text", "message", "response">>

\* for key in ("output", "text", "message", "response", "content") in invoke
InvokeKeys == <<"output", "text", "message", "response", "content">>

\* The functions that call a webhook.
Clients == {"trigger", "invoke_basic", "invoke_chat", "execute"}

KeysOf(client) == IF client = "trigger" THEN TriggerKeys ELSE InvokeKeys

\* if isinstance(body, list) and body: body = body[0]
ElementZero(body) ==
    IF body.ty = "list" /\ Len(body.els) > 0 THEN body.els[1] ELSE body

\* The inner try of trigger and invoke: the shaped JSON body, or resp.text
\* when resp.json() raises.
ShapedBody(resp, keys) ==
    IF ~resp.parses THEN Return(PyStr(resp.text))
    ELSE LET b == ElementZero(resp.json)
             r == IF b.ty = "dict" THEN FirstKey(b.fields, keys, 1) ELSE NotFound
         IN IF r.st = "found" THEN Return(r.val) ELSE Return(PyStr(Dumps(b)))

\* The outer try of trigger and invoke, before its except clause.
CallBody(out, keys) ==
    IF out.kind # "response" THEN Raise(out.kind)
    ELSE IF raise_for_status(out.status) THEN Raise("HTTPError")
    ELSE ShapedBody(out, keys)

\* except Exception as exc: print(...); return None
trigger(out, keys) ==
    LET r == CallBody(out, keys)
    IN IF r.st = "raise" THEN Return(None) ELSE r

\* N8nPrompt.execute: return response.json(); except Exception: return None
execute(out) ==
    LET r == IF out.kind # "response" THEN Raise(out.kind)
             ELSE IF raise_for_status(out.status) THEN Raise("HTTPError")
             ELSE IF ~out.parses THEN Raise("JSONDecodeError")
             ELSE Return(out.json)
    IN IF r.st = "raise" THEN Return(None) ELSE r

\* What the client returns for an outcome of its HTTP call.
CallOf(client, out) ==
    IF client = "execute" THEN execute(out) ELSE trigger(out, KeysOf(client))

\* ------------------------------------------------------------- extract_json
\* A raw reply is a sequence of tokens: "F" a ``` fence, "j" the word json,
\* "w" whitespace, "{" and "}", "m" one member "a":1, "n" the literal null,
\* "l" the array [1], "x" prose without any of these.

Tokens == {"F", "j", "w", "{", "}", "m", "n", "l", "x"}

\* The values json.loads gives: {}, {"a": 1} and [1] (null gives None).
EmptyDict == [ty |-> "dict", v |-> "{}"]

DictA == [ty |-> "dict", v |-> "{\"a\": 1}"]

ListOne == [ty |-> "list", els |-> <<PyInt("1")>>]

\* s without its whitespace, which JSON allows between any two tokens.
RECURSIVE Unspaced(_)
Unspaced(s) ==
    IF s = <<>> THEN <<>>
    ELSE IF Head(s) = "w" THEN Unspaced(Tail(s))
    ELSE <<Head(s)>> \o Unspaced(Tail(s))

\* json.loads(s): the value, or json.JSONDecodeError.
Loads(s) ==
    LET t == Unspaced(s)
    IN CASE t = <<"n">> -> Return(None)
         [] t = <<"{", "}">> -> Return(EmptyDict)
         [] t = <<"{", "m", "}">> -> Return(DictA)
         [] t = <<"l">> -> Return(ListOne)
         [] OTHER -> Raise("JSONDecodeError")

\* \s* from position i: the first position that holds no whitespace.
RECURSIVE SkipWs(_, _)
SkipWs(s, i) == IF i <= Len(s) /\ s[i] = "w" THEN SkipWs(s, i + 1) ELSE i

NoMatch == [found |-> FALSE, group |-> <<>>]

Match(g) == [found |-> TRUE, group |-> g]

\* Where the object of ```(?:json)?\s*(\{ would open for a fence at i.
OpenAfter(s, i) ==
    SkipWs(s, IF i + 1 <= Len(s) /\ s[i + 1] = "j" THEN i + 2 ELSE i + 1)

\* The ends e of (\{.*?\})\s*``` for an object opening at b.
ClosesFrom(s, b) ==
    {e \in (b + 1)..Len(s) :
        /\ s[e] = "}"
        /\ SkipWs(s, e + 1) <= Len(s)
        /\ s[SkipWs(s, e + 1)] = "F"}

\* The fence positions at which the pattern matches.
FenceStarts(s) ==
    {i \in 1..Len(s) :
        /\ s[i] = "F"
        /\ OpenAfter(s, i) <= Len(s)
        /\ s[OpenAfter(s, i)] = "{"
        /\ ClosesFrom(s, OpenAfter(s, i)) # {}}

Min(S) == CHOOSE n \in S : \A m \in S : n <= m

Max(S) == CHOOSE n \in S : \A m \in S : n >= m

\* re.search(r"```(?:json)?\s*(\{.*?\})\s*```", raw, re.DOTALL): the leftmost
\* match, its group 1 ending at the nearest brace that closes before a fence.
Fenced(s) ==
    IF FenceStarts(s) = {} THEN NoMatch
    ELSE LET b == OpenAfter(s, Min(FenceStarts(s)))
         IN Match(SubSeq(s, b, Min(ClosesFrom(s, b))))

\* re.search(r"\{.*\}", raw, re.DOTALL): from the leftmost brace that has a
\* closing one after it, greedily to the last closing one.
Braced(s) ==
    LET starts == {i \in 1..Len(s) :
                      s[i] = "{" /\ \E e \in (i + 1)..Len(s) : s[e] = "}"}
    IN IF starts = {} THEN NoMatch
       ELSE Match(SubSeq(s, Min(starts),
                         Max({e \in 1..Len(s) : s[e] = "}"})))

\* A stage: the parse of a match, a failure to parse passed over in silence.
Stage3(s) ==
    IF Braced(s).found /\ Loads(Braced(s).group).st = "return"
    THEN Loads(Braced(s).group) ELSE Return(None)

Stage2(s) ==
    IF Fenced(s).found /\ Loads(Fenced(s).group).st = "return"
    THEN Loads(Fenced(s).group) ELSE Stage3(s)

\* 1. direct parse, 2. the fenced block, 3. the brace span, else None.
extract_json(s) == IF Loads(s).st = "return" THEN Loads(s) ELSE Stage2(s)

\* ------------------------------------------------------------------ state

VARIABLES
    runData,    \* the result tree of the run the remote engine is executing
    nSteps,     \* outputs appended to it so far
    nItems,     \* items among them
    extPc,      \* "run" while the engine runs, "done" once an extractor returned
    extBy,      \* the extractor that ran: "_extract_text" or "extract_response"
    extRaised,  \* whether an exception left the extractor
    extRet      \* what it returned

extVars == <<runData, nSteps, nItems, extPc, extBy, extRaised, extRet>>

VARIABLES
    poller,         \* the loop that polls: "poll" (project.py) or "main" (dynamic_prompt.py)
    retries,        \* its attempt budget
    attempt,        \* the loop variable
    pollPc,         \* "off", "loop", "query", "check", "done"
    sleeps,         \* calls of time.sleep so far
    queries,        \* calls of the execution listing so far
    execution,      \* what the last query returned
    pollEnd,        \* how the loop ended: "returned" (a terminal run), "exhausted"
    pollRet,        \* the value returned (poll) or the extracted text (main)
    firstTerminal,  \* history: the number of the first query that answered a terminal run
    terminalRun,    \* history: that run
    runningSeen     \* history: queries that answered a run still running

pollVars == <<poller, retries, attempt, pollPc, sleeps, queries, execution,
              pollEnd, pollRet, firstTerminal, terminalRun, runningSeen>>

VARIABLES
    client,       \* the function that calls the webhook
    trigPc,       \* "off", "call", "posted", "done"
    httpCalls,    \* HTTP requests it has sent
    outcome,      \* how the request ended
    trigRaised,   \* whether an exception left the function
    trigRet       \* what it returned

trigVars == <<client, trigPc, httpCalls, outcome, trigRaised, trigRet>>

VARIABLES
    raw,        \* the raw reply given to extract_json
    sanPc,      \* "off", "call", "done"
    sanRaised,  \* whether an exception left extract_json
    sanRet      \* what it returned

sanVars == <<raw, sanPc, sanRaised, sanRet>>

VARIABLES
    prog,        \* the script whose main runs: "project" or "dynamic_prompt"
    mainPc,      \* where main is; "exit" once it returned, "raised" once an
                 \* exception left it
    apiKey,      \* whether N8N_API_KEY is set
    workflowId,  \* what get_first_workflow_id returned
    listCalls,   \* requests for the workflow listing
    report       \* the outcome main printed

mainVars == <<prog, mainPc, apiKey, workflowId, listCalls, report>>

VARIABLES
    served,   \* the workflow that the webhook path starts; "none" where the
              \* remote instance is left open
    latest,   \* for each workflow, the newest run that the executions listing holds
    started   \* the id of the run that the webhook call created, 0 before it

engVars == <<served, latest, started>>

vars == <<extVars, pollVars, trigVars, sanVars, mainVars, engVars>>

notExt == <<pollVars, trigVars, sanVars, mainVars, engVars>>

notPoll == <<extVars, trigVars, sanVars, mainVars, engVars>>

notTrig == <<extVars, pollVars, sanVars, mainVars, engVars>>

notSan == <<extVars, pollVars, trigVars, mainVars, engVars>>

\* ------------------------------------------------------ the execution locator

\* The statuses of a run; terminal is every one but running.
Statuses == {"running", "success", "error", "crashed", "cancelled"}

TerminalStatuses == Statuses \ {"running"}

\* A run as the executions listing gives it; NoRun is Python's None in its place.
Run(status, rd) == [status |-> status, runData |-> rd]

NoRun == Run("none", <<>>)

OneItemTree(item) ==
    <<Stage("list", <<StageRun("ok", <<Group("list", <<item>>)>>)>>)>>

\* The result trees of the runs the listing may answer with: no stage, an item
\* with output and text, one with only content, one without any recognized
\* field, and a malformed item.
SampleTrees ==
    { <<>>,
      OneItemTree(MapItem({"output", "text"}, 1, "str")),
      OneItemTree(MapItem({"content"}, 1, "str")),
      OneItemTree(MapItem({}, 1, "str")),
      OneItemTree(Item("null", NoFields)) }

\* What GET /executions?workflowId=..&limit=1&includeData=true may answer: a
\* failure (network error, non-2xx, bad body), an empty listing, or one run,
\* whose result tree is populated only once it is terminal.
ListingResponses ==
    {[kind |-> "error", data |-> <<>>], [kind |-> "ok", data |-> <<>>]}
        \cup {[kind |-> "ok", data |-> <<Run("running", <<>>)>>]}
        \cup {[kind |-> "ok", data |-> <<Run(st, rd)>>] :
                st \in TerminalStatuses, rd \in SampleTrees}

\* The workflows of the instance, in the order in which GET /workflows lists them.
Workflows == <<"wf1", "wf2">>

WorkflowIds == {Workflows[i] : i \in 1..Len(Workflows)}

\* A run with the id under which the instance keeps it.
RunOf(id, status, rd) == [status |-> status, runData |-> rd, id |-> id]

\* The id of the run that the webhook call creates; earlier runs have lesser ids.
NewRunId == Len(Workflows) + 1

\* What the executions listing answers for workflow wf: any answer where the
\* instance is left open, else a failure or the newest run of wf.
ListingsFor(wf) ==
    IF served = "none" THEN ListingResponses
    ELSE {[kind |-> "error", data |-> <<>>],
          [kind |-> "ok",
           data |-> IF wf \in WorkflowIds /\ latest[wf] # NoRun
                    THEN <<latest[wf]>> ELSE <<>>]}

\* return data[0] if data else None; except Exception: return None
_latest_execution(resp) ==
    IF resp.kind = "error" THEN NoRun
    ELSE IF Len(resp.data) > 0 THEN resp.data[1] ELSE NoRun

\* if executions and 'data' in executions and len(executions['data']) > 0
get_result(resp) ==
    IF resp.kind = "error" THEN NoRun
    ELSE IF Len(resp.data) > 0 THEN resp.data[1] ELSE NoRun

\* ------------------------------------------------------------ the poll loop

\* for attempt in range(10)
PollAttempts == 10

\* Attempt budgets tried for poll(workflow_id, retries, delay).
MaxAttempts == 3

\* terminal = {"success", "error", "crashed", "cancelled"}
terminal == {"success", "error", "crashed", "cancelled"}

\* A loop that runs one iteration too many.
InRangeOffByOne(a, n) == a <= n

\* for attempt in range(retries): another iteration follows.
InRange(a, n) == a < n

\* A status test that takes only success for terminal.
SawSuccessOnly(e) == e # NoRun /\ e.status = "success"

\* if execution and execution.get("status") in terminal
SawTerminal(e) == e # NoRun /\ e.status \in terminal

\* return self._extract_text(execution) in poll; ai_text in main's loop.
ExtractedBy(who, e) ==
    IF who = "poll" THEN _extract_text(e.runData) ELSE extract_response(e.runData)

\* time.sleep(delay) at the head of an iteration.
PollSleep ==
    /\ pollPc = "loop"
    /\ InRange(attempt, retries)
    /\ sleeps' = sleeps + 1
    /\ pollPc' = "query"
    /\ UNCHANGED <<poller, retries, attempt, queries, execution, pollEnd, pollRet,
                   firstTerminal, terminalRun, runningSeen, notPoll>>

\* execution = self._latest_execution(workflow_id)
PollQuery ==
    /\ pollPc = "query"
    /\ \E resp \in ListingsFor(workflowId) :
        LET e == IF poller = "poll" THEN _latest_execution(resp) ELSE get_result(resp)
        IN /\ execution' = e
           /\ IF firstTerminal = 0 /\ e.status \in TerminalStatuses
              THEN firstTerminal' = queries + 1 /\ terminalRun' = e
              ELSE UNCHANGED <<firstTerminal, terminalRun>>
           /\ runningSeen' = IF e.status = "running" THEN runningSeen + 1 ELSE runningSeen
    /\ queries' = queries + 1
    /\ pollPc' = "check"
    /\ UNCHANGED <<poller, retries, attempt, sleeps, pollEnd, pollRet, notPoll>>

\* The status test: return the extraction of a terminal run, else loop on.
PollCheck ==
    /\ pollPc = "check"
    /\ IF SawTerminal(execution)
       THEN /\ pollPc' = "done"
            /\ pollEnd' = "returned"
            /\ pollRet' = ExtractedBy(poller, execution).val
            /\ UNCHANGED attempt
       ELSE /\ pollPc' = "loop"
            /\ attempt' = attempt + 1
            /\ UNCHANGED <<pollEnd, pollRet>>
    /\ UNCHANGED <<poller, retries, sleeps, queries, execution,
                   firstTerminal, terminalRun, runningSeen, notPoll>>

\* The loop ran out: return None (poll), report the timeout (main).
PollExhausted ==
    /\ pollPc = "loop"
    /\ ~InRange(attempt, retries)
    /\ pollPc' = "done"
    /\ pollEnd' = "exhausted"
    /\ pollRet' = None
    /\ UNCHANGED <<poller, retries, attempt, sleeps, queries, execution,
                   firstTerminal, terminalRun, runningSeen, notPoll>>

PollStart(who, n) ==
    /\ poller = who
    /\ retries = n
    /\ attempt = 0
    /\ pollPc = "loop"
    /\ sleeps = 0
    /\ queries = 0
    /\ execution = NoRun
    /\ pollEnd = "none"
    /\ pollRet = None
    /\ firstTerminal = 0
    /\ terminalRun = NoRun
    /\ runningSeen = 0

\* poll called with any budget up to MaxAttempts, or main's loop of ten.
PollInit ==
    \/ \E n \in 0..MaxAttempts : PollStart("poll", n)
    \/ PollStart("main", PollAttempts)

\* The poll loop when it is not running.
PollIdle ==
    /\ poller = "none"
    /\ retries = 0
    /\ attempt = 0
    /\ pollPc = "off"
    /\ sleeps = 0
    /\ queries = 0
    /\ execution = NoRun
    /\ pollEnd = "none"
    /\ pollRet = None
    /\ firstTerminal = 0
    /\ terminalRun = NoRun
    /\ runningSeen = 0

PollNext ==
    \/ PollSleep
    \/ PollQuery
    \/ PollCheck
    \/ PollExhausted

\* C1: while no query answers a terminal run (each answers a running run or no
\* run), the loop sleeps before each query, one sleep per query, and ends only
\* after exactly `retries` sleeps and `retries` queries, returning none.
C1_PollExhaustion ==
    /\ (pollPc = "query" => sleeps = queries + 1)
    /\ (pollPc # "query" => sleeps = queries)
    /\ (pollPc = "done" /\ firstTerminal = 0)
        => /\ sleeps = retries
           /\ queries = retries
           /\ pollEnd = "exhausted"
           /\ pollRet = None

\* Three attempts, every one answered by a run still running.
C1_Witness ==
    /\ pollPc = "done"
    /\ retries = 3
    /\ runningSeen = 3
    /\ firstTerminal = 0
    /\ sleeps = 3
    /\ pollRet = None

\* C2: the first query that answers a terminal run (success, error, crashed or
\* cancelled) is the last one: after k sleeps and k queries the loop returns
\* the result for that k-th run, it returns on no other ground, and it neither
\* sleeps nor queries again.
C2_PollStopsAtFirstTerminal ==
    /\ firstTerminal > 0
        => /\ pollPc \in {"check", "done"}
           /\ queries = firstTerminal
           /\ sleeps = firstTerminal
           /\ execution = terminalRun
    /\ (pollPc = "done" /\ firstTerminal > 0)
        => /\ pollEnd = "returned"
           /\ pollRet = ExtractedBy(poller, terminalRun).val
    /\ pollEnd = "returned" => (firstTerminal > 0 /\ queries = firstTerminal)

\* running, running, success: returned on the third attempt.
C2_Witness ==
    /\ pollPc = "done"
    /\ pollEnd = "returned"
    /\ firstTerminal = 3
    /\ runningSeen = 2
    /\ terminalRun.status = "success"
    /\ queries = 3
    /\ pollRet # None

\* C3: poll returns none only when the budget is exhausted without a terminal
\* run observed; once a terminal run was observed, whatever its status, the
\* value it returns is not none.
C3_TimeoutIsDistinct ==
    (pollPc = "done" /\ poller = "poll")
        => (pollRet = None <=> firstTerminal = 0)

\* --------------------------------------------------------- the webhook call

NoOutcome == [Response("none", FALSE, JScalar(None), "") EXCEPT !.kind = "none"]

\* resp = requests.post(self.webhook_url, json=..., timeout=180): one request,
\* ending in one of outs.
\* The request has reached the webhook, which answered it.
Landed(out) == out.kind = "response" /\ out.status = "2xx"

\* The instance creates a run of the served workflow, still running, the
\* instant the call lands.
RunCreated(out) ==
    IF served # "none" /\ Landed(out)
    THEN /\ latest' = [latest EXCEPT ![served] = RunOf(NewRunId, "running", <<>>)]
         /\ started' = NewRunId
    ELSE UNCHANGED <<latest, started>>

HttpCallFrom(outs) ==
    /\ trigPc = "call"
    /\ \E out \in outs : outcome' = out /\ RunCreated(out)
    /\ httpCalls' = httpCalls + 1
    /\ trigPc' = "posted"
    /\ UNCHANGED <<client, trigRaised, trigRet, served, extVars, pollVars, sanVars,
                   mainVars>>

HttpCall == HttpCallFrom(HttpOutcomes)

\* The rest of the function: the status check, the shaping, the except clauses.
CallReturn ==
    /\ trigPc = "posted"
    /\ trigRaised' = (CallOf(client, outcome).st = "raise")
    /\ trigRet' = CallOf(client, outcome).val
    /\ trigPc' = "done"
    /\ UNCHANGED <<client, httpCalls, outcome, notTrig>>

TrigStart(who) ==
    /\ client = who
    /\ trigPc = "call"
    /\ httpCalls = 0
    /\ outcome = NoOutcome
    /\ trigRaised = FALSE
    /\ trigRet = None

TrigInit == \E who \in Clients : TrigStart(who)

TrigIdle ==
    /\ client = "none"
    /\ trigPc = "off"
    /\ httpCalls = 0
    /\ outcome = NoOutcome
    /\ trigRaised = FALSE
    /\ trigRet = None

TrigNext ==
    \/ HttpCall
    \/ CallReturn

\* ------------------------------------------------------ extract_json applied

\* Raw replies of up to MaxLen tokens.
MaxLen == 5

Raws == UNION {[1..n -> Tokens] : n \in 0..MaxLen}

ExtractJson ==
    /\ sanPc = "call"
    /\ sanRaised' = (extract_json(raw).st = "raise")
    /\ sanRet' = extract_json(raw).val
    /\ sanPc' = "done"
    /\ UNCHANGED <<raw, notSan>>

SanInit ==
    /\ raw \in Raws
    /\ sanPc = "call"
    /\ sanRaised = FALSE
    /\ sanRet = None

SanIdle ==
    /\ raw = <<>>
    /\ sanPc = "off"
    /\ sanRaised = FALSE
    /\ sanRet = None

SanNext == ExtractJson

\* The stages as the contract words them: the whole string; the interior of
\* the first fenced block holding a brace-delimited object; the span from the
\* first { to the last }.
WholeParse(s) == Loads(s)

FencedParse(s) ==
    IF Fenced(s).found THEN Loads(Fenced(s).group) ELSE Raise("no match")

FirstToLastBrace(s) ==
    LET opens == {i \in 1..Len(s) : s[i] = "{"}
        closes == {i \in 1..Len(s) : s[i] = "}"}
    IN IF opens # {} /\ closes # {} /\ Min(opens) < Max(closes)
       THEN Loads(SubSeq(s, Min(opens), Max(closes))) ELSE Raise("no match")

\* The parse of the first stage that succeeds, in the order 1, 2, 3.
FirstSuccess(s) ==
    CASE WholeParse(s).st = "return" -> WholeParse(s)
      [] FencedParse(s).st = "return" -> FencedParse(s)
      [] FirstToLastBrace(s).st = "return" -> FirstToLastBrace(s)
      [] OTHER -> Return(None)

AllStagesFail(s) ==
    /\ WholeParse(s).st = "raise"
    /\ FencedParse(s).st = "raise"
    /\ FirstToLastBrace(s).st = "raise"

\* C9: sanitize returns the parse of the first stage that succeeds, in the
\* order whole string, fenced block, first-{-to-last-} span; a failing stage
\* is silent; none is returned exactly when all three stages fail.
C9_SanitizerLayeredFallback ==
    sanPc = "done"
        => /\ ~sanRaised
           /\ sanRet = FirstSuccess(raw).val
           /\ (sanRet = None <=> AllStagesFail(raw))

\* What extract_json does compute: the first success, and none when all three
\* stages fail or when the whole string is the JSON literal null.
SanitizerFallbackButNull ==
    sanPc = "done"
        => /\ ~sanRaised
           /\ sanRet = FirstSuccess(raw).val
           /\ (sanRet = None <=> (AllStagesFail(raw) \/ Unspaced(raw) = <<"n">>))

\* The contract's examples, at token level: a fenced object, an object inside
\* prose, and prose alone.
SanitizerExamples ==
    /\ extract_json(<<"F", "j", "w", "{", "m", "}", "w", "F">>).val = DictA
    /\ extract_json(<<"x", "w", "{", "m", "}", "w", "x">>).val = DictA
    /\ extract_json(<<"x", "w", "j", "w", "x">>).val = None

\* --------------------------------------------------------------- the mains

\* Python's truth value of x.
Truthy(x) ==
    CASE x.ty = "none" -> FALSE
      [] x.ty = "str" -> x.v # ""
      [] x.ty = "int" -> x.v # "0"
      [] x.ty = "list" -> x.els # <<>>
      [] x.ty = "dict" -> IF "fields" \in DOMAIN x THEN x.fields # NoFields ELSE x.v # "{}"
      [] OTHER -> TRUE

\* What GET /workflows may answer: a failure, an empty listing, a first workflow.
WorkflowListings == {"error", "empty", "wf1"}

\* return workflows['data'][0].get('id'), else None
get_first_workflow_id(resp) == IF resp \in {"error", "empty"} THEN "none" ELSE resp

\* The outcomes of the webhook call that the mains are run against.
MainOutcomes ==
    {out \in HttpOutcomes :
        \/ out.kind # "response"
        \/ out.status \in {"3xx", "5xx"} /\ ~out.parses /\ out.text = ""
        \/ /\ out.status = "2xx"
           /\ \/ ~out.parses
              \/ out.json \in {JDict(NoFields), JList(<<>>), JScalar(None),
                               JDict(MapItem({"output"}, 1, "str").json),
                               JDict(MapItem({"content"}, 1, "str").json),
                               JList(<<JDict(MapItem({"text"}, 1, "str").json)>>)}}

\* The raw replies that a non-empty raw_output may be.
SampleReplies ==
    { <<"x">>, <<"n">>, <<"l">>, <<"{", "}">>, <<"{", "m", "}">>,
      <<"F", "j", "{", "m", "}", "F">>, <<"x", "{", "m", "}", "x">> }

MainHttpCall == HttpCallFrom(MainOutcomes)

Exit(what) == mainPc' = "exit" /\ report' = what

\* project.py main: if not gen.api_key: print(...); return
ProjCheckKey ==
    /\ prog = "project"
    /\ mainPc = "start"
    /\ IF apiKey THEN mainPc' = "input" /\ UNCHANGED report ELSE Exit("config_error")
    /\ UNCHANGED <<prog, apiKey, workflowId, listCalls, extVars, pollVars, trigVars,
                   sanVars, engVars>>

\* description = input(...).strip(); then raw_output = gen.trigger(description)
ProjInput ==
    /\ prog = "project"
    /\ mainPc = "input"
    /\ \E given \in BOOLEAN :
        IF given
        THEN /\ mainPc' = "trigger"
             /\ client' = "trigger"
             /\ trigPc' = "call"
             /\ UNCHANGED report
        ELSE /\ Exit("no_input")
             /\ UNCHANGED <<client, trigPc>>
    /\ UNCHANGED <<prog, apiKey, workflowId, listCalls, httpCalls, outcome, trigRaised,
                   trigRet, extVars, pollVars, sanVars, engVars>>

\* if not raw_output: print("Failed to reach the n8n webhook ..."); return
\* else workflow_json = extract_json(raw_output)
ProjAfterTrigger ==
    /\ prog = "project"
    /\ mainPc = "trigger"
    /\ trigPc = "done"
    /\ IF Truthy(trigRet)
       THEN /\ mainPc' = "sanitize"
            /\ \E r \in SampleReplies : raw' = r
            /\ sanPc' = "call"
            /\ UNCHANGED report
       ELSE /\ Exit("trigger_failed")
            /\ UNCHANGED <<raw, sanPc>>
    /\ UNCHANGED <<prog, apiKey, workflowId, listCalls, sanRaised, sanRet,
                   extVars, pollVars, trigVars, engVars>>

\* if workflow_json: print(pretty); save = input(...)
\* else: print(raw_output); print("[Note] ...")
ProjAfterSanitize ==
    /\ prog = "project"
    /\ mainPc = "sanitize"
    /\ sanPc = "done"
    /\ IF Truthy(sanRet)
       THEN mainPc' = "save" /\ report' = "workflow_json"
       ELSE Exit("free_text")
    /\ UNCHANGED <<prog, apiKey, workflowId, listCalls, extVars, pollVars, trigVars,
                   sanVars, engVars>>

\* workflow_json.get("name", description[:40]): the value's get where it is a
\* dict, AttributeError where it is a list.
GetName(workflow_json) ==
    IF workflow_json.ty = "dict" THEN Return(PyStr("description"))
    ELSE Raise("AttributeError")

\* if save == "y": wf_name = workflow_json.get(...); ...; json.dump(...);
\* print("Saved to: ..."), outside any try: an exception leaves main.
ProjSave ==
    /\ prog = "project"
    /\ mainPc = "save"
    /\ \E save \in {"y", "n"} :
        mainPc' = IF save = "y" /\ GetName(sanRet).st = "raise" THEN "raised" ELSE "exit"
    /\ UNCHANGED <<prog, apiKey, workflowId, listCalls, report, extVars, pollVars,
                   trigVars, sanVars, engVars>>

\* A main that goes on to the workflow listing whether the key is set or not.
DynCheckKeyIgnored ==
    /\ prog = "dynamic_prompt"
    /\ mainPc = "start"
    /\ mainPc' = "locate"
    /\ UNCHANGED <<prog, apiKey, workflowId, listCalls, report, extVars, pollVars,
                   trigVars, sanVars, engVars>>

\* dynamic_prompt.py main: if not n8n.api_key: print(...); return
DynCheckKey ==
    /\ prog = "dynamic_prompt"
    /\ mainPc = "start"
    /\ IF apiKey THEN mainPc' = "locate" /\ UNCHANGED report ELSE Exit("config_error")
    /\ UNCHANGED <<prog, apiKey, workflowId, listCalls, extVars, pollVars, trigVars,
                   sanVars, engVars>>

\* workflow_id = n8n.get_first_workflow_id(); if not workflow_id: ...; return
DynLocate ==
    /\ prog = "dynamic_prompt"
    /\ mainPc = "locate"
    /\ listCalls' = listCalls + 1
    /\ \E resp \in WorkflowListings :
        /\ workflowId' = get_first_workflow_id(resp)
        /\ IF get_first_workflow_id(resp) = "none"
           THEN Exit("no_workflows")
           ELSE mainPc' = "input" /\ UNCHANGED report
    /\ UNCHANGED <<prog, apiKey, extVars, pollVars, trigVars, sanVars, engVars>>

\* topic = input(...); then response = n8n.execute("dynamic-prompt-fixed", ...)
DynInput ==
    /\ prog = "dynamic_prompt"
    /\ mainPc = "input"
    /\ \E given \in BOOLEAN :
        IF given
        THEN /\ mainPc' = "trigger"
             /\ client' = "execute"
             /\ trigPc' = "call"
             /\ UNCHANGED report
        ELSE /\ Exit("no_input")
             /\ UNCHANGED <<client, trigPc>>
    /\ UNCHANGED <<prog, apiKey, workflowId, listCalls, httpCalls, outcome, trigRaised,
                   trigRet, extVars, pollVars, sanVars, engVars>>

\* if response: for attempt in range(10): ... else: print("Failed to execute workflow.")
DynAfterExecute ==
    /\ prog = "dynamic_prompt"
    /\ mainPc = "trigger"
    /\ trigPc = "done"
    /\ IF Truthy(trigRet)
       THEN /\ mainPc' = "poll"
            /\ poller' = "main"
            /\ retries' = PollAttempts
            /\ pollPc' = "loop"
            /\ UNCHANGED report
       ELSE /\ Exit("execute_failed")
            /\ UNCHANGED <<poller, retries, pollPc>>
    /\ UNCHANGED <<prog, apiKey, workflowId, listCalls, attempt, sleeps, queries, execution,
                   pollEnd, pollRet, firstTerminal, terminalRun, runningSeen,
                   extVars, trigVars, sanVars, engVars>>

\* The prints that end the loop: the text, "Could not extract response.", or
\* "Timeout waiting for execution."
DynAfterPoll ==
    /\ prog = "dynamic_prompt"
    /\ mainPc = "poll"
    /\ pollPc = "done"
    /\ Exit(IF pollEnd = "exhausted" THEN "timeout"
            ELSE IF Truthy(pollRet) THEN "ai_response" ELSE "could_not_extract")
    /\ UNCHANGED <<prog, apiKey, workflowId, listCalls, extVars, pollVars, trigVars,
                   sanVars, engVars>>

MainInit ==
    /\ prog \in {"project", "dynamic_prompt"}
    /\ mainPc = "start"
    /\ apiKey \in BOOLEAN
    /\ workflowId = "none"
    /\ listCalls = 0
    /\ report = "none"

MainIdle ==
    /\ prog = "none"
    /\ mainPc = "off"
    /\ apiKey = FALSE
    /\ workflowId = "none"
    /\ listCalls = 0
    /\ report = "none"

MainNext ==
    \/ ProjCheckKey
    \/ ProjInput
    \/ ProjAfterTrigger
    \/ ProjAfterSanitize
    \/ ProjSave
    \/ DynCheckKey
    \/ DynLocate
    \/ DynInput
    \/ DynAfterExecute
    \/ DynAfterPoll
    \/ MainHttpCall
    \/ CallReturn
    \/ PollSleep
    \/ PollQuery
    \/ PollCheck
    \/ PollExhausted
    \/ ExtractJson

\* The trigger returned without an inline result.
NoInlineResult == trigPc = "done" /\ ~Truthy(trigRet)

\* C10: whenever the trigger yields no inline result the flow goes on to the
\* execution locator and the poller (then the extractor), polling never
\* starts before the trigger has returned, and the absent inline result is
\* not by itself reported as a failed trigger.
C10_FallbackToPolling ==
    /\ pollPc # "off" => trigPc = "done"
    /\ (mainPc = "exit" /\ NoInlineResult)
        => /\ pollPc # "off"
           /\ report \notin {"trigger_failed", "execute_failed"}

\* C11: when no API key is configured, no request to the management API
\* (workflow listing or execution listing) is ever issued; the configuration
\* error is the one outcome reported, and the flow ends at once, without
\* calling the webhook and without retry.
C11_MissingKeyFailFast ==
    ~apiKey /\ mainPc # "off"
        => /\ listCalls = 0
           /\ queries = 0
           /\ httpCalls = 0
           /\ mainPc \in {"start", "exit"}
           /\ report = (IF mainPc = "exit" THEN "config_error" ELSE "none")

\* Without a key, dynamic_prompt.py's main has ended on the configuration
\* error before its first request, the workflow listing.
C11_Witness ==
    /\ ~apiKey
    /\ prog = "dynamic_prompt"
    /\ mainPc = "exit"
    /\ report = "config_error"
    /\ listCalls = 0

\* The outcomes that a main prints before it returns.
Reports ==
    {"config_error", "no_input", "no_workflows", "trigger_failed", "execute_failed",
     "workflow_json", "free_text", "ai_response", "could_not_extract", "timeout"}

\* C12: whatever the configuration, the trigger outcome, the locator's
\* answers, the run's status, the extraction result and the sanitized value
\* (one that is not a JSON object included), no exception leaves the
\* top-level flow, and a flow that has ended has reported its outcome.
C12_CleanExit ==
    /\ mainPc # "raised"
    /\ ~trigRaised /\ ~sanRaised
    /\ mainPc = "exit" => report \in Reports

\* What project.py's main does: an exception leaves it exactly when the
\* sanitized value is truthy and no dict, and the user asks to save it.
RaisesOnlyOnSavingNonObject ==
    mainPc = "raised"
        => /\ prog = "project"
           /\ Truthy(sanRet) /\ sanRet.ty # "dict"
           /\ report = "workflow_json"

\* What the mains do: polling starts only after the webhook call returned, and
\* only in dynamic_prompt.py, when it returned a truthy body; without an
\* inline result both mains report the failure and stop.
PollingOnlyAfterInlineResult ==
    /\ pollPc # "off" => (prog = "dynamic_prompt" /\ trigPc = "done" /\ Truthy(trigRet))
    /\ (mainPc = "exit" /\ NoInlineResult)
        => (pollPc = "off" /\ report \in {"trigger_failed", "execute_failed"})

\* ------------------------------------------- the remote engine (environment)
\* The engine appends in execution order: a stage after the last stage, a
\* stage-run to the last stage, a group to the last stage-run, an item to the
\* last group.

LastStage == runData[Len(runData)]

LastRun == LastStage.els[Len(LastStage.els)]

LastGroup == LastRun.main[Len(LastRun.main)]

HasOpenStage == Len(runData) > 0 /\ LastStage.kind = "list"

HasOpenRun == HasOpenStage /\ Len(LastStage.els) > 0 /\ LastRun.kind = "ok"

HasOpenGroup == HasOpenRun /\ Len(LastRun.main) > 0 /\ LastGroup.kind = "list"

WithRuns(rd, els) == [rd EXCEPT ![Len(rd)] = Stage("list", els)]

WithMain(rd, main) ==
    WithRuns(rd, [rd[Len(rd)].els EXCEPT ![Len(rd[Len(rd)].els)] = StageRun("ok", main)])

\* The kinds of a new stage: runs null, runs [], or one run with one empty group.
StageKinds == {"null", "list", "open"}

NewStage(kind) ==
    CASE kind = "null" -> Stage("null", <<>>)
      [] kind = "list" -> Stage("list", <<>>)
      [] OTHER -> Stage("list", <<StageRun("ok", <<Group("list", <<>>)>>)>>)

RunKinds == {"nodata", "datanull", "ok", "open"}

NewRun(kind) ==
    CASE kind = "open" -> StageRun("ok", <<Group("list", <<>>)>>)
      [] OTHER -> StageRun(kind, <<>>)

GroupKinds == {"null", "list"}

ItemKinds == {"str", "null", "nojson", "jsonnull"}

RemoteStage ==
    /\ extPc = "run"
    /\ nSteps < MaxSteps
    /\ \E kind \in StageKinds : runData' = Append(runData, NewStage(kind))
    /\ nSteps' = nSteps + 1
    /\ UNCHANGED <<nItems, extPc, extBy, extRaised, extRet, notExt>>

RemoteRun ==
    /\ extPc = "run"
    /\ nSteps < MaxSteps
    /\ HasOpenStage
    /\ \E kind \in RunKinds :
        runData' = WithRuns(runData, Append(LastStage.els, NewRun(kind)))
    /\ nSteps' = nSteps + 1
    /\ UNCHANGED <<nItems, extPc, extBy, extRaised, extRet, notExt>>

RemoteGroup ==
    /\ extPc = "run"
    /\ nSteps < MaxSteps
    /\ HasOpenRun
    /\ \E kind \in GroupKinds :
        runData' = WithMain(runData, Append(LastRun.main, Group(kind, <<>>)))
    /\ nSteps' = nSteps + 1
    /\ UNCHANGED <<nItems, extPc, extBy, extRaised, extRet, notExt>>

\* The items the engine may emit as its n-th: a malformed one, a mapping of any
\* set of recognized fields to strings, or of one field to an int.
NewItems(n) ==
    {Item(kind, NoFields) : kind \in ItemKinds}
        \cup {MapItem(fs, n, "str") : fs \in SUBSET FieldNames}
        \cup {MapItem({k}, n, "int") : k \in FieldNames}

RemoteItem ==
    /\ extPc = "run"
    /\ nSteps < MaxSteps
    /\ HasOpenGroup
    /\ \E item \in NewItems(nItems + 1) :
        runData' = WithMain(runData,
            [LastRun.main EXCEPT ![Len(LastRun.main)] =
                Group("list", Append(LastGroup.items, item))])
    /\ nSteps' = nSteps + 1
    /\ nItems' = nItems + 1
    /\ UNCHANGED <<extPc, extBy, extRaised, extRet, notExt>>

\* --------------------------------------------------- the extractors applied

ExtractText ==
    /\ extPc = "run"
    /\ extPc' = "done"
    /\ extBy' = "_extract_text"
    /\ extRaised' = (_extract_text(runData).st = "raise")
    /\ extRet' = _extract_text(runData).val
    /\ UNCHANGED <<runData, nSteps, nItems, notExt>>

ExtractResponse ==
    /\ extPc = "run"
    /\ extPc' = "done"
    /\ extBy' = "extract_response"
    /\ extRaised' = (extract_response(runData).st = "raise")
    /\ extRet' = extract_response(runData).val
    /\ UNCHANGED <<runData, nSteps, nItems, notExt>>

\* ------------------------------------------- the reference walk of the spec
\* Depth-first: stages in mapping order, then stage-runs, groups and items in
\* sequence order, an absent or malformed level contributing no item.

ItemsOfGroup(g) == IF g.kind = "list" THEN g.items ELSE <<>>

RECURSIVE ItemsOfGroups(_)
ItemsOfGroups(main) ==
    IF main = <<>> THEN <<>>
    ELSE ItemsOfGroup(Head(main)) \o ItemsOfGroups(Tail(main))

ItemsOfRun(run) == IF run.kind = "ok" THEN ItemsOfGroups(run.main) ELSE <<>>

RECURSIVE ItemsOfRuns(_)
ItemsOfRuns(runs) ==
    IF runs = <<>> THEN <<>>
    ELSE ItemsOfRun(Head(runs)) \o ItemsOfRuns(Tail(runs))

ItemsOfStage(s) == IF s.kind = "list" THEN ItemsOfRuns(s.els) ELSE <<>>

RECURSIVE AllItems(_)
AllItems(rd) ==
    IF rd = <<>> THEN <<>>
    ELSE ItemsOfStage(Head(rd)) \o AllItems(Tail(rd))

RECURSIVE AllRuns(_)
AllRuns(rd) ==
    IF rd = <<>> THEN <<>>
    ELSE (IF Head(rd).kind = "list" THEN Head(rd).els ELSE <<>>) \o AllRuns(Tail(rd))

\* The positions of keys that the mapping f holds.
HeldIn(f, keys) == {n \in 1..Len(keys) : f[keys[n]] # Absent}

\* The positions of keys that the item's mapping holds.
Held(item, keys) == IF item.kind = "map" THEN HeldIn(item.json, keys) ELSE {}

Least(S) == CHOOSE n \in S : \A m \in S : n <= m

\* The value of f's earliest field in the order of keys.
PriorityIn(f, keys) == f[keys[Least(HeldIn(f, keys))]]

\* The value of the item's earliest field in the order of keys.
PriorityValue(item, keys) == PriorityIn(item.json, keys)

\* The string of the first item, in walk order, that holds one of keys.
RefWalk(rd, keys) ==
    LET its == AllItems(rd)
        hit == {i \in 1..Len(its) : Held(its[i], keys) # {}}
    IN IF hit = {} THEN None ELSE Str(PriorityValue(its[Least(hit)], keys))

\* Every level is a list or absent, every item a mapping with a "json" mapping.
WellFormed(rd) ==
    /\ \A i \in 1..Len(AllRuns(rd)) : AllRuns(rd)[i].kind # "datanull"
    /\ \A i \in 1..Len(AllItems(rd)) : AllItems(rd)[i].kind \in {"map", "nojson"}

\* The malformations are those the extractor's contract lists: a stage-run
\* without "data", an empty or null group, an item that is not a mapping.
ListedMalformationsOnly(rd) ==
    /\ \A i \in 1..Len(AllRuns(rd)) : AllRuns(rd)[i].kind # "datanull"
    /\ \A i \in 1..Len(AllItems(rd)) : AllItems(rd)[i].kind # "jsonnull"

ExtractTextDone == extPc = "done" /\ extBy = "_extract_text"

\* C4: an item holding any non-empty set of the five recognized fields yields
\* the value of its earliest field in the order output, text, message,
\* response, content (here: the tree's only item, in a well-formed tree).
C4_RecognizedFieldPriority ==
    (/\ ExtractTextDone
     /\ WellFormed(runData)
     /\ Len(AllItems(runData)) = 1
     /\ Held(AllItems(runData)[1], RecognizedFields) # {})
        => extRet = Str(PriorityValue(AllItems(runData)[1], RecognizedFields))

\* C5: on a well-formed tree the extractor returns what the reference walk over
\* the five recognized fields returns: the first carrying item's value, and
\* none exactly when no item carries a recognized field.
C5_FirstMatchTraversal ==
    (ExtractTextDone /\ WellFormed(runData))
        => extRet = RefWalk(runData, RecognizedFields)

\* C6: the extractor never raises, and it skips a stage-run without data, an
\* empty or null group and an item that is not a mapping, so that a field of
\* its own key list in a later item is still returned.
C6_ExtractorTolerance ==
    (ExtractTextDone /\ ListedMalformationsOnly(runData))
        => /\ ~extRaised
           /\ extRet = RefWalk(runData, ExtractKeys)

\* What _extract_text does compute on a well-formed tree: the walk over the
\* four names of its own key list.
ExtractTextWalksOwnKeys ==
    (ExtractTextDone /\ WellFormed(runData))
        => extRet = RefWalk(runData, ExtractKeys)

\* No exception leaves either extractor, whatever the tree.
ExtractorsNeverRaise == extPc = "done" => ~extRaised


\* The client has returned.
CallDone == trigPc = "done"

\* C7 as claimed: whatever the one HTTP call ends in, the client returns a
\* value and lets no exception escape, it sends exactly one request, and on a
\* network error, a timeout or any status other than 2xx it returns none.
C7_NoneOnEveryNon2xx ==
    /\ httpCalls <= 1
    /\ CallDone
        => /\ ~trigRaised
           /\ httpCalls = 1
           /\ (outcome.kind # "response" \/ outcome.status # "2xx") => trigRet = None

\* C7 amended: as above, with none returned on a network error, a timeout or a
\* 4xx/5xx status; a final response of another class (2xx, 3xx) whose body does
\* not parse is returned as its text by trigger and invoke.
C7_TriggerFailureContainment ==
    /\ httpCalls <= 1
    /\ CallDone
        => /\ ~trigRaised
           /\ httpCalls = 1
           /\ (outcome.kind # "response" \/ outcome.status \in {"4xx", "5xx"})
                => trigRet = None
           /\ (/\ outcome.kind = "response"
               /\ outcome.status \notin {"4xx", "5xx"}
               /\ ~outcome.parses
               /\ client # "execute")
                => trigRet = PyStr(outcome.text)

\* trigger against an unreachable endpoint: one request, none returned.
C7_Witness ==
    /\ CallDone
    /\ client = "trigger"
    /\ outcome.kind = "ConnectionError"
    /\ httpCalls = 1
    /\ ~trigRaised
    /\ trigRet = None

\* C8: on a 2xx response whose body parses, a list body stands for its element
\* 0, and a dict holding a recognized field (output, text, message, response,
\* content) yields the string of its highest-priority one; a body that does
\* not parse yields the response text verbatim.
C8_TriggerResultShaping ==
    (/\ CallDone
     /\ client \in {"trigger", "invoke_basic", "invoke_chat"}
     /\ outcome.kind = "response"
     /\ outcome.status = "2xx")
        => IF outcome.parses
           THEN LET b == IF outcome.json.ty = "list" /\ outcome.json.els # <<>>
                         THEN outcome.json.els[1] ELSE outcome.json
                IN (b.ty = "dict" /\ HeldIn(b.fields, RecognizedFields) # {})
                      => trigRet = Str(PriorityIn(b.fields, RecognizedFields))
           ELSE trigRet = PyStr(outcome.text)

\* What trigger and invoke do compute: the same over each one's own key list.
ShapingOverOwnKeys ==
    (/\ CallDone
     /\ client \in {"trigger", "invoke_basic", "invoke_chat"}
     /\ outcome.kind = "response"
     /\ outcome.status = "2xx"
     /\ outcome.parses)
        => LET b == IF outcome.json.ty = "list" /\ outcome.json.els # <<>>
                    THEN outcome.json.els[1] ELSE outcome.json
           IN IF b.ty = "dict" /\ HeldIn(b.fields, KeysOf(client)) # {}
              THEN trigRet = Str(PriorityIn(b.fields, KeysOf(client)))
              ELSE trigRet = PyStr(Dumps(b))

ExtInit ==
    /\ runData = <<>>
    /\ nSteps = 0
    /\ nItems = 0
    /\ extPc = "run"
    /\ extBy = "none"
    /\ extRaised = FALSE
    /\ extRet = None

\* The extractor harness when another component is the one under study.
ExtIdle ==
    /\ runData = <<>>
    /\ nSteps = 0
    /\ nItems = 0
    /\ extPc = "off"
    /\ extBy = "none"
    /\ extRaised = FALSE
    /\ extRet = None

ExtNext ==
    \/ RemoteStage
    \/ RemoteRun
    \/ RemoteGroup
    \/ RemoteItem
    \/ ExtractText
    \/ ExtractResponse


\* ------------------------------------------------------- the remote instance

\* The instance left open: the listing may answer anything.
EngineOpen ==
    /\ served = "none"
    /\ latest = [wf \in WorkflowIds |-> NoRun]
    /\ started = 0

\* The runs that a workflow may hold from earlier use: none, one that
\* succeeded, one that failed. Workflow number i's has id i.
EarlierRuns(i) ==
    {NoRun,
     RunOf(i, "success", OneItemTree(MapItem({"output", "text"}, 1, "str"))),
     RunOf(i, "error", <<>>)}

\* An instance of two workflows, the webhook path on either of them, used by
\* this client alone: no run is running, none is started but by its call.
EngineInit ==
    /\ served \in WorkflowIds
    /\ latest \in {f \in [WorkflowIds -> UNION {EarlierRuns(i) : i \in 1..Len(Workflows)}] :
                      \A i \in 1..Len(Workflows) : f[Workflows[i]] \in EarlierRuns(i)}
    /\ started = 0

\* running -> terminal, asynchronously: the run that the call created ends,
\* and its result tree is there.
RunFinishes ==
    /\ served # "none"
    /\ started # 0
    /\ latest[served].status = "running"
    /\ \E st \in TerminalStatuses, rd \in SampleTrees :
        latest' = [latest EXCEPT ![served] = RunOf(started, st, rd)]
    /\ UNCHANGED <<served, started, extVars, pollVars, trigVars, sanVars, mainVars>>

\* dynamic_prompt.py's main against that instance: one trigger, then one
\* poll sequence.
CorrInit == MainInit /\ prog = "dynamic_prompt"

CorrNext ==
    \/ DynCheckKey
    \/ DynLocate
    \/ DynInput
    \/ DynAfterExecute
    \/ DynAfterPoll
    \/ MainHttpCall
    \/ CallReturn
    \/ PollSleep
    \/ PollQuery
    \/ PollCheck
    \/ PollExhausted
    \/ RunFinishes

\* The poll loop has read a terminal run and extracted from it.
PollReadTerminal == pollEnd = "returned"

\* C13: with one client, one trigger and then one poll sequence, the terminal
\* run that the poll loop reads and extracts from is the run that the
\* preceding webhook call created: the workflow polled is the one the webhook
\* started, and the run did not exist before the call landed.
C13_TriggerPollCorrelation ==
    (served # "none" /\ PollReadTerminal)
        => /\ workflowId = served
           /\ started = NewRunId
           /\ terminalRun.id = started

\* What the code does ensure: where the workflow that GET /workflows lists
\* first is the one on the webhook path, the run read is the one created.
CorrelatedWhenServedIsListedFirst ==
    (served = Workflows[1] /\ PollReadTerminal)
        => /\ workflowId = served
           /\ terminalRun.id = started

\* --------------------------------------------------------- specifications

\* An extractor applied to every result tree of up to MaxSteps outputs.
InitExtract == ExtInit /\ PollIdle /\ TrigIdle /\ SanIdle /\ MainIdle /\ EngineOpen

SpecExtract == InitExtract /\ [][ExtNext]_vars

\* The poll loops against every sequence of listing answers.
InitPoll == PollInit /\ ExtIdle /\ TrigIdle /\ SanIdle /\ MainIdle /\ EngineOpen

SpecPoll == InitPoll /\ [][PollNext]_vars

\* Each webhook client against every outcome of its one HTTP call.
InitTrigger == TrigInit /\ ExtIdle /\ PollIdle /\ SanIdle /\ MainIdle /\ EngineOpen

SpecTrigger == InitTrigger /\ [][TrigNext]_vars

\* extract_json applied to every raw reply of up to MaxLen tokens.
InitSanitize == SanInit /\ ExtIdle /\ PollIdle /\ TrigIdle /\ MainIdle /\ EngineOpen

SpecSanitize == InitSanitize /\ [][SanNext]_vars

\* The program as it is run: either script's main, from start to exit, with
\* the webhook call, the poll loop and extract_json as main starts them.
Init == MainInit /\ ExtIdle /\ PollIdle /\ TrigIdle /\ SanIdle /\ EngineOpen

Next == MainNext

Spec == Init /\ [][Next]_vars

\* dynamic_prompt.py's main against an instance of two workflows.
InitCorrelate == CorrInit /\ EngineInit /\ ExtIdle /\ PollIdle /\ TrigIdle /\ SanIdle

SpecCorrelate == InitCorrelate /\ [][CorrNext]_vars

=============================================================================
